---------------------------- MODULE Spec2Model ----------------------------
(***************************************************************************)
(* Model of the tab organizer popup (src/src/App.tsx): the suggestion view *)
(* built by loadTabs, the selection handlers toggleGroup / toggleTab /     *)
(* updateGroupName, and handleOrganizeTabs, which drives the browser's tab *)
(* grouping facility through awaited calls and then rebuilds the view.     *)
(*                                                                         *)
(* Strings are modelled as sequences of labels, so that the empty string   *)
(* is <<>> and the hostname "www.a.com" is <<"www", "a", "com">>.          *)
(* The production build is modelled: a state updater runs once per event.  *)
(***************************************************************************)
EXTENDS Integers, Sequences, FiniteSets, TLC

\* ------------------------------------------------------------- bounds
MaxTabs == 3         \* tabs open in the window when the popup opens
MaxInitGroups == 2   \* tab groups that exist when the popup opens
MaxRuns == 2         \* clicks on "Organize Tabs" in one popup session
MaxBusyTabs == 2     \* renames and further clicks are explored in windows up to this size
MaxDisturbances == 1 \* tabs closed, renames and further clicks in one session

\* ---------------------------------------------------------- constants
NoGroup == -1        \* chrome.tabGroups.TAB_GROUP_ID_NONE, "tab.groupId !== -1"
Null == 0            \* "let existingGroupId: number | null = null"

Tabs == 1..MaxTabs
InitGroupIds == 1..MaxInitGroups
\* every run creates at most one group per suggestion
GroupIds == 1..(MaxInitGroups + MaxRuns * MaxTabs)
Runs == 1..MaxRuns

\* ------------------------------------------------------------ strings
EmptyStr == <<>>
Unknown == <<"unknown">>
HostA == <<"a", "com">>
HostWwwA == <<"www", "a", "com">>
HostB == <<"b", "com">>
NameWork == <<"Work">>

\* A tab address: parses (new URL succeeds) or not; scheme and hostname.
HttpsUrl(h) == [parses |-> TRUE, scheme |-> "https", hostname |-> h]
ChromeUrl == [parses |-> TRUE, scheme |-> "chrome", hostname |-> <<"settings">>]
ExtUrl == [parses |-> TRUE, scheme |-> "chrome-extension", hostname |-> <<"abcdef">>]
BadUrl == [parses |-> FALSE, scheme |-> "", hostname |-> EmptyStr]
\* tab.url absent (undefined or ""): falsy in "tab.url &&"
NoUrl == [parses |-> FALSE, scheme |-> "none", hostname |-> EmptyStr]

\* u.hostname.replace(/^www\./, '')
StripWww(h) ==
  IF Len(h) > 1 /\ Head(h) = "www" THEN Tail(h) ELSE h

getHostname(url) ==
  IF url.parses THEN StripWww(url.hostname) ELSE Unknown

\* ------------------------------------------------------ sequence helpers
Range(s) == {s[i] : i \in DOMAIN s}

RECURSIVE SeqOfSet(_)
SeqOfSet(S) ==
  IF S = {} THEN <<>>
  ELSE LET m == CHOOSE x \in S : \A y \in S : x <= y
       IN <<m>> \o SeqOfSet(S \ {m})

IndexOf(s, P(_)) ==
  IF \E i \in DOMAIN s : P(s[i])
  THEN CHOOSE i \in DOMAIN s : P(s[i]) /\ \A j \in 1..(i - 1) : ~P(s[j])
  ELSE 0

VARIABLES
  tabInfo,     \* per tab: url and whether it has a title (fixed while open)
  chrome,      \* the grouping facility: open tabs, membership, group attributes
  chrome0,     \* the facility as it was when the popup opened (history)
  loadPc,      \* position of loadTabs
  loadTabsSnap,\* "tabs" of loadTabs: the listing it queried
  loading,     \* useState(true)
  groups,      \* useState<GroupSuggestion[]>([])
  objs,        \* the group objects of the array loadTabs stored, which the
               \* handlers mutate in place and running organizers iterate
  organized,   \* useState(false)
  alerts,      \* number of failure notices raised by alert()
  run          \* per click on Organize: the suspended handleOrganizeTabs

vars == <<tabInfo, chrome, chrome0, loadPc, loadTabsSnap, loading, groups,
          objs, organized, alerts, run>>

\* ----------------------------------------------------- grouping facility
\* chrome = [open: set of tabs, groupId: tab -> group or NoGroup,
\*           title: group -> string, collapsed: group -> BOOLEAN, nextGid]
\* A group exists while it holds a tab; its attributes are reset when it
\* dissolves, and its identifier is never used again.
Members(c, g) == {t \in c.open : c.groupId[t] = g}
GroupExists(c, g) == g \in GroupIds /\ Members(c, g) # {}
TabExists(c, t) == t \in c.open

Settle(c) ==
  [c EXCEPT
     !.title = [g \in GroupIds |-> IF Members(c, g) # {} THEN c.title[g] ELSE EmptyStr],
     !.collapsed = [g \in GroupIds |-> IF Members(c, g) # {} THEN c.collapsed[g] ELSE FALSE]]

\* chrome.tabs.query({ currentWindow: true }): the open tabs in window order
ListTabs(c) ==
  LET ids == SeqOfSet(c.open)
  IN [i \in 1..Len(ids) |-> [id |-> ids[i], groupId |-> c.groupId[ids[i]]]]

\* chrome.tabs.ungroup(tabId)
Ungroup(c, t) == Settle([c EXCEPT !.groupId[t] = NoGroup])

\* chrome.tabs.group({ groupId, tabIds })
AddToGroup(c, g, ids) ==
  Settle([c EXCEPT !.groupId = [t \in Tabs |-> IF t \in ids THEN g ELSE c.groupId[t]]])

\* chrome.tabs.group({ tabIds }): a new group, expanded and untitled
CreateGroup(c, ids) ==
  Settle([c EXCEPT
     !.groupId = [t \in Tabs |-> IF t \in ids THEN c.nextGid ELSE c.groupId[t]],
     !.nextGid = c.nextGid + 1])

\* chrome.tabGroups.update(groupId, { title, color, collapsed })
UpdateGroup(c, g, title, collapsed) ==
  [c EXCEPT !.title[g] = title, !.collapsed[g] = collapsed]

\* the environment closes a tab
CloseTabIn(c, t) ==
  Settle([c EXCEPT !.open = c.open \ {t}, !.groupId[t] = NoGroup])

\* ------------------------------------------------ building the suggestions
\* variant: a filter that lets internal and extension pages through
KeepTab_All(info, t) == info[t].url # NoUrl

\* tabs.filter(tab => tab.url && !startsWith('chrome://') && !startsWith('chrome-extension://'))
KeepTab(info, t) ==
  /\ info[t].url # NoUrl
  /\ info[t].url.scheme # "chrome"
  /\ info[t].url.scheme # "chrome-extension"

FilterTabs(info, listing) == SelectSeq(listing, LAMBDA e : KeepTab(info, e.id))

\* "if (tab.id && tab.url && tab.title)"
Usable(info, t) == info[t].url # NoUrl /\ info[t].titled

NewTab(t) == [id |-> t, selected |-> TRUE]

\* variant: a map that never finds the key, so that every tab opens an entry
MapPush_NoMerge(map, key, tab) == Append(map, [key |-> key, tabs |-> <<tab>>])

\* hostMap.has(host) ? push : set(host, []) and push; a Map keeps insertion order
MapPush(map, key, tab) ==
  LET i == IndexOf(map, LAMBDA e : e.key = key)
  IN IF i = 0
     THEN Append(map, [key |-> key, tabs |-> <<tab>>])
     ELSE [map EXCEPT ![i].tabs = Append(@, tab)]

RECURSIVE BuildHostMap(_, _, _, _)
BuildHostMap(info, listing, i, map) ==
  IF i > Len(listing) THEN map
  ELSE LET t == listing[i].id
       IN BuildHostMap(info, listing, i + 1,
            IF Usable(info, t)
            THEN MapPush(map, getHostname(info[t].url), NewTab(t))
            ELSE map)

\* customName is an optional field: {} when absent, {name} when set
HostSuggestion(e) ==
  [host |-> e.key, tabs |-> e.tabs, groupSelected |-> TRUE, customName |-> {}]

\* loadTabs, lines 71-100
FreshBuild(info, listing) ==
  LET map == BuildHostMap(info, FilterTabs(info, listing), 1, <<>>)
  IN [i \in 1..Len(map) |-> HostSuggestion(map[i])]

\* --------------------------------------------------------- selection model
Every(tabs) == \A i \in DOMAIN tabs : tabs[i].selected

\* variant: flips every tab's own flag instead of overwriting them all
toggleGroup_FlipEach(gs, gi) ==
  [gs EXCEPT ![gi].groupSelected = ~@,
             ![gi].tabs = [j \in DOMAIN gs[gi].tabs |->
                             [gs[gi].tabs[j] EXCEPT !.selected = ~@]]]

toggleGroup(gs, gi) ==
  LET sel == ~gs[gi].groupSelected
  IN [gs EXCEPT ![gi].groupSelected = sel,
                ![gi].tabs = [j \in DOMAIN gs[gi].tabs |->
                                [gs[gi].tabs[j] EXCEPT !.selected = sel]]]

\* variant: flips the tab and leaves groupSelected as it was
toggleTab_Stale(gs, gi, ti) ==
  [gs EXCEPT ![gi].tabs = [@ EXCEPT ![ti].selected = ~@]]

toggleTab(gs, gi, ti) ==
  LET flipped == [gs[gi].tabs EXCEPT ![ti].selected = ~@]
  IN [gs EXCEPT ![gi].tabs = flipped, ![gi].groupSelected = Every(flipped)]

\* variant: looks at the first suggestion only
hasSelectedTabs_FirstOnly(gs) ==
  gs # <<>> /\ \E j \in DOMAIN gs[1].tabs : gs[1].tabs[j].selected

hasSelectedTabs(gs) ==
  \E i \in DOMAIN gs : \E j \in DOMAIN gs[i].tabs : gs[i].tabs[j].selected

\* variant: a rename that also ticks the suggestion
updateGroupName_Ticks(gs, gi, name) ==
  [gs EXCEPT ![gi].customName = {name}, ![gi].groupSelected = TRUE]

updateGroupName(gs, gi, name) == [gs EXCEPT ![gi].customName = {name}]


\* --------------------------------------------------- handleOrganizeTabs
\* The suspended handler of one click: pc names the call it is waiting on.
\* foundGrouped is history: the unselected tabs this run found in a group;
\* skipped is history: the unselected tabs whose lookup or ungroup failed;
\* invoked is history: the ticks of every suggestion when the button was
\* clicked, kept by the sessions that compare them with the ticks read later.
IdleRun ==
  [pc |-> "idle", gi |-> 0, sel |-> <<>>, unsel |-> <<>>, k |-> 0,
   existingGroupId |-> Null, wasCollapsed |-> FALSE, groupId |-> Null,
   tabsToAdd |-> <<>>, title |-> EmptyStr,
   tabs |-> <<>>, i |-> 0, names |-> <<>>,
   failedAt |-> "", foundGrouped |-> {}, skipped |-> {}, invoked |-> <<>>]

\* the ticks of the view, suggestion by suggestion
TicksOf(gs) == [gi \in DOMAIN gs |-> [j \in DOMAIN gs[gi].tabs |-> gs[gi].tabs[j].selected]]

Active(r) == r.pc \notin {"idle", "done", "failed"}

\* variant: every tab of the suggestion counts as selected
SelectedIds_All(g) == [j \in DOMAIN g.tabs |-> g.tabs[j].id]

SelectedIds(g) ==
  LET s == SelectSeq(g.tabs, LAMBDA t : t.selected)
  IN [j \in 1..Len(s) |-> s[j].id]

UnselectedIds(g) ==
  LET s == SelectSeq(g.tabs, LAMBDA t : ~t.selected)
  IN [j \in 1..Len(s) |-> s[j].id]

\* variant: the title is always the suggestion's key
TitleFor_HostOnly(g) == g.host

\* "group.customName || group.host"
TitleFor(g) ==
  IF g.customName = {} \/ g.customName = {EmptyStr}
  THEN g.host
  ELSE CHOOSE n \in g.customName : TRUE

\* the ids of the tabs of g whose tick, in ticks, is b
IdsTicked(g, ticks, b) ==
  LET at == SelectSeq([j \in DOMAIN g.tabs |-> j], LAMBDA j : ticks[j] = b)
  IN [m \in 1..Len(at) |-> g.tabs[at[m]].id]

\* variant: the partitions are those of the ticks found at the click
RECURSIVE StartGroup_AtClick(_, _, _)
StartGroup_AtClick(r, gs, gi) ==
  IF gi > Len(gs)
  THEN [IdleRun EXCEPT !.pc = "listTabs", !.gi = gi, !.foundGrouped = r.foundGrouped,
                       !.skipped = r.skipped, !.invoked = r.invoked]
  ELSE LET ticks == IF gi \in DOMAIN r.invoked THEN r.invoked[gi] ELSE TicksOf(gs)[gi]
           sel == IdsTicked(gs[gi], ticks, TRUE)
           unsel == IdsTicked(gs[gi], ticks, FALSE)
           r1 == [IdleRun EXCEPT !.gi = gi, !.sel = sel, !.unsel = unsel, !.k = 1,
                                 !.foundGrouped = r.foundGrouped,
                                 !.skipped = r.skipped, !.invoked = r.invoked]
       IN IF unsel # <<>> THEN [r1 EXCEPT !.pc = "getUnsel"]
          ELSE IF sel # <<>> THEN [r1 EXCEPT !.pc = "getSel"]
          ELSE StartGroup_AtClick(r1, gs, gi + 1)

\* top of the loop body for the suggestion at index gi (lines 182-208),
\* run up to the first call it awaits
RECURSIVE StartGroup(_, _, _)
StartGroup(r, gs, gi) ==
  IF gi > Len(gs)
  THEN [IdleRun EXCEPT !.pc = "listTabs", !.gi = gi, !.foundGrouped = r.foundGrouped,
                       !.skipped = r.skipped, !.invoked = r.invoked]
  ELSE LET sel == SelectedIds(gs[gi])
           unsel == UnselectedIds(gs[gi])
           r1 == [IdleRun EXCEPT !.gi = gi, !.sel = sel, !.unsel = unsel, !.k = 1,
                                 !.foundGrouped = r.foundGrouped,
                                 !.skipped = r.skipped, !.invoked = r.invoked]
       IN IF unsel # <<>> THEN [r1 EXCEPT !.pc = "getUnsel"]
          ELSE IF sel # <<>> THEN [r1 EXCEPT !.pc = "getSel"]
          ELSE StartGroup(r1, gs, gi + 1)

\* variant: a group is created also when no tab of the suggestion is selected
BeginSelected_NoGuard(r, gs) ==
  IF r.sel # <<>> THEN [r EXCEPT !.pc = "getSel", !.k = 1]
  ELSE [r EXCEPT !.pc = "createGroup", !.k = 0]

\* after the loop over the unselected ids (line 205)
BeginSelected(r, gs) ==
  IF r.sel # <<>> THEN [r EXCEPT !.pc = "getSel", !.k = 1]
  ELSE StartGroup(r, gs, r.gi + 1)

NextUnsel(r, gs) ==
  IF r.k < Len(r.unsel) THEN [r EXCEPT !.pc = "getUnsel", !.k = r.k + 1]
  ELSE BeginSelected(r, gs)

\* after the scan of the selected ids (lines 228-243)
AfterScan(r) ==
  IF r.existingGroupId # Null
  THEN [r EXCEPT !.pc = "queryGroup", !.groupId = r.existingGroupId, !.k = 0]
  ELSE [r EXCEPT !.pc = "createGroup", !.k = 0]

NextSel(r) ==
  IF r.k < Len(r.sel) THEN [r EXCEPT !.pc = "getSel", !.k = r.k + 1]
  ELSE AfterScan(r)

\* the update call is issued with the title read from the suggestion now
ToUpdate(r, gs) ==
  [r EXCEPT !.pc = "updateGroup", !.title = TitleFor(gs[r.gi]), !.tabsToAdd = <<>>]

\* the outer catch (lines 333-336)
Failed(r, where) ==
  [IdleRun EXCEPT !.pc = "failed", !.failedAt = where]

\* ------------------------------------------------- resync (lines 254-332)
NameOf(names, g) == names[IndexOf(names, LAMBDA e : e.gid = g)].name

\* the loop of lines 268-307 over the filtered listing, with the group names
\* the awaited chrome.tabGroups.get calls produced (an entry's title is
\* history: the title the facility held for the group when it was read,
\* empty when the group was gone)
RECURSIVE ResyncFold(_, _, _, _, _, _)
ResyncFold(info, tabs, i, names, groupMap, hostMap) ==
  IF i > Len(tabs) THEN [groupMap |-> groupMap, hostMap |-> hostMap]
  ELSE LET t == tabs[i].id
           g == tabs[i].groupId
       IN IF ~Usable(info, t)
          THEN ResyncFold(info, tabs, i + 1, names, groupMap, hostMap)
          ELSE IF g # NoGroup
          THEN ResyncFold(info, tabs, i + 1, names,
                          MapPush(groupMap, g, NewTab(t)), hostMap)
          ELSE ResyncFold(info, tabs, i + 1, names, groupMap,
                          MapPush(hostMap, getHostname(info[t].url), NewTab(t)))

\* variant: a rebuilt group suggestion that starts unselected
GroupSuggestionOf_Unselected(names, e) ==
  [host |-> NameOf(names, e.key), tabs |-> e.tabs, groupSelected |-> FALSE,
   customName |-> {NameOf(names, e.key)}]

GroupSuggestionOf(names, e) ==
  [host |-> NameOf(names, e.key), tabs |-> e.tabs, groupSelected |-> TRUE,
   customName |-> {NameOf(names, e.key)}]

\* newGroups (lines 309-329)
ResyncBuild(info, tabs, names) ==
  LET m == ResyncFold(info, tabs, 1, names, <<>>, <<>>)
  IN [i \in 1..Len(m.groupMap) |-> GroupSuggestionOf(names, m.groupMap[i])]
     \o [i \in 1..Len(m.hostMap) |-> HostSuggestion(m.hostMap[i])]

\* index of the next listed tab whose group has no groupMap entry yet, or 0
NextUnnamed(info, tabs, names, from) ==
  LET need(j) == /\ j >= from
                 /\ Usable(info, tabs[j].id)
                 /\ tabs[j].groupId # NoGroup
                 /\ \A n \in DOMAIN names : names[n].gid # tabs[j].groupId
  IN IF \E j \in DOMAIN tabs : need(j)
     THEN CHOOSE j \in DOMAIN tabs : need(j) /\ \A h \in 1..(j - 1) : ~need(h)
     ELSE 0

\* variant: the name is the group's title, empty or not
ResyncName_NoFallback(c, info, e) == c.title[e.groupId]

\* "groupInfo.title || getHostname(tab.url)", or the catch of line 279
ResyncName(c, info, e) ==
  IF GroupExists(c, e.groupId) /\ c.title[e.groupId] # EmptyStr
  THEN c.title[e.groupId]
  ELSE getHostname(info[e.id].url)

Done(r) == [IdleRun EXCEPT !.pc = "done", !.invoked = r.invoked]

\* ------------------------------------------------------------ initial state
\* The popup opens on a window with MaxTabs tabs, some of them in groups.
\* Hosts are interchangeable, so the first tab is at a.com; the last tab may
\* be an internal page (filtered out) or a tab without a title (skipped).
WebTab(h) == [url |-> HttpsUrl(h), titled |-> TRUE]
InternalTab == [url |-> ChromeUrl, titled |-> TRUE]
UntitledTab == [url |-> HttpsUrl(HostA), titled |-> FALSE]

\* The window holds the tabs 1..n; the others are never opened.
WindowSizes == MaxBusyTabs..MaxTabs

InitTabInfos(n) ==
  {info \in [Tabs -> {WebTab(HostA), WebTab(HostB), InternalTab}] :
     /\ info[1] = WebTab(HostA)
     /\ \A t \in Tabs : t < n => info[t] \in {WebTab(HostA), WebTab(HostB)}
     /\ \A t \in Tabs : t > n => info[t] = WebTab(HostA)}

InitTitles == {NameWork}

\* group identifiers are opaque: number the groups by their first tab
Canonical(gid) ==
  \A g \in InitGroupIds :
     (\E t \in Tabs : gid[t] = g) =>
        \A h \in 1..(g - 1) :
           \E t \in Tabs : gid[t] = h /\ \A u \in Tabs : gid[u] = g => t < u

InitChrome(n, gid, ttl, coll) ==
  Settle([open |-> 1..n, groupId |-> gid,
          title |-> [g \in GroupIds |-> IF g \in InitGroupIds THEN ttl[g] ELSE EmptyStr],
          collapsed |-> [g \in GroupIds |-> IF g \in InitGroupIds THEN coll[g] ELSE FALSE],
          nextGid |-> MaxInitGroups + 1])

InitFacility(n) ==
  \E gid \in [Tabs -> {NoGroup} \cup InitGroupIds] :
  \E ttl \in [InitGroupIds -> InitTitles] :
  \E coll \in [InitGroupIds -> BOOLEAN] :
     /\ Canonical(gid)
     /\ \A t \in Tabs : t > n => gid[t] = NoGroup
     /\ chrome = InitChrome(n, gid, ttl, coll)

InitApp ==
  /\ chrome0 = chrome
  /\ loadPc = "query"
  /\ loadTabsSnap = <<>>
  /\ loading = TRUE
  /\ groups = <<>>
  /\ objs = <<>>
  /\ organized = FALSE
  /\ alerts = 0
  /\ run = [r \in Runs |-> IdleRun]

Init ==
  \E n \in WindowSizes :
     /\ tabInfo \in InitTabInfos(n)
     /\ InitFacility(n)
     /\ InitApp

\* ------------------------------------------------------------------ loadTabs
\* const tabs = await chrome.tabs.query({ currentWindow: true })
LoadQuery ==
  /\ loadPc = "query"
  /\ loadTabsSnap' = ListTabs(chrome)
  /\ loadPc' = "window"
  /\ UNCHANGED <<tabInfo, chrome, chrome0, loading, groups, objs, organized, alerts, run>>

\* await chrome.windows.getCurrent()
LoadWindow ==
  /\ loadPc = "window"
  /\ loadPc' = "active"
  /\ UNCHANGED <<tabInfo, chrome, chrome0, loadTabsSnap, loading, groups, objs,
                 organized, alerts, run>>

\* await chrome.tabs.query({ active: true, ... }), then lines 71-104
LoadFinish ==
  /\ loadPc = "active"
  /\ loadPc' = "done"
  /\ groups' = FreshBuild(tabInfo, loadTabsSnap)
  /\ objs' = groups'
  /\ loading' = FALSE
  /\ UNCHANGED <<tabInfo, chrome, chrome0, loadTabsSnap, organized, alerts, run>>

\* ------------------------------------------------------------------ UI events
\* the checkboxes and the button are rendered only when neither loading nor
\* organized (lines 340-363)
Interactive == ~loading /\ ~organized

\* what the session has seen beyond loading, toggling and one click
Closes == Cardinality(chrome0.open) - Cardinality(chrome.open)
Renames == Cardinality({gi \in DOMAIN objs : objs[gi].customName # {}})
Clicks == Cardinality({rid \in Runs : run[rid].pc # "idle"})
Disturbances == Closes + Renames + (IF Clicks > 1 THEN Clicks - 1 ELSE 0)
Busy == Cardinality(chrome0.open) <= MaxBusyTabs /\ Disturbances < MaxDisturbances

ToggleGroup(gi) ==
  /\ Interactive
  /\ gi \in DOMAIN groups
  /\ groups' = toggleGroup(groups, gi)
  /\ objs' = groups'
  /\ UNCHANGED <<tabInfo, chrome, chrome0, loadPc, loadTabsSnap, loading,
                 organized, alerts, run>>

ToggleTab(gi, ti) ==
  /\ Interactive
  /\ gi \in DOMAIN groups
  /\ ti \in DOMAIN groups[gi].tabs
  /\ groups' = toggleTab(groups, gi, ti)
  /\ objs' = groups'
  /\ UNCHANGED <<tabInfo, chrome, chrome0, loadPc, loadTabsSnap, loading,
                 organized, alerts, run>>

UpdateGroupName(gi, name) ==
  /\ Interactive
  /\ gi \in DOMAIN groups
  /\ Busy
  /\ groups' = updateGroupName(groups, gi, name)
  /\ objs' = groups'
  /\ UNCHANGED <<tabInfo, chrome, chrome0, loadPc, loadTabsSnap, loading,
                 organized, alerts, run>>

\* onClick={handleOrganizeTabs} disabled={!hasSelectedTabs()}: the handler
\* runs to its first await
OrganizeClick(rid) ==
  /\ Interactive
  /\ hasSelectedTabs(groups)
  /\ run[rid].pc = "idle"
  /\ \A q \in 1..(rid - 1) : run[q].pc # "idle"
  /\ rid > 1 => Busy
  /\ run' = [run EXCEPT ![rid] = StartGroup(IdleRun, objs, 1)]
  /\ UNCHANGED <<tabInfo, chrome, chrome0, loadPc, loadTabsSnap, loading, groups,
                 objs, organized, alerts>>

\* ------------------------------------------------------------ environment
\* A tab closed before loadTabs lists the window is a smaller window, and one
\* closed while loadTabs is suspended acts as one closed right after it.
CloseTab(t) ==
  /\ loadPc = "done"
  /\ t \in chrome.open
  /\ Disturbances < MaxDisturbances
  /\ chrome' = CloseTabIn(chrome, t)
  /\ UNCHANGED <<tabInfo, chrome0, loadPc, loadTabsSnap, loading, groups, objs,
                 organized, alerts, run>>

\* ------------------------------------------- steps of handleOrganizeTabs
\* Each step is the completion of the awaited call and the code up to the
\* next await.
appVars == <<tabInfo, chrome0, loadPc, loadTabsSnap, loading, objs>>

Resume(rid, r) ==
  /\ run' = [run EXCEPT ![rid] = r]
  /\ UNCHANGED <<groups, organized, alerts>>

\* variant: an outer catch that raises no notice
Fail_Silent(rid, where) ==
  /\ run' = [run EXCEPT ![rid] = Failed(run[rid], where)]
  /\ UNCHANGED <<groups, organized, alerts>>

Fail(rid, where) ==
  /\ run' = [run EXCEPT ![rid] = Failed(run[rid], where)]
  /\ alerts' = alerts + 1
  /\ UNCHANGED <<groups, organized>>

\* variant: the lookup of an unselected tab outside any try
GetUnsel_NoTry(rid) ==
  LET r == run[rid]
      t == r.unsel[r.k]
  IN /\ r.pc = "getUnsel"
     /\ IF ~TabExists(chrome, t)
        THEN Fail(rid, "getUnsel")
        ELSE IF chrome.groupId[t] # NoGroup
        THEN Resume(rid, [r EXCEPT !.pc = "ungroup", !.foundGrouped = @ \cup {t}])
        ELSE Resume(rid, NextUnsel(r, objs))
     /\ UNCHANGED <<chrome, appVars>>

\* const tab = await chrome.tabs.get(tabId)   (line 197)
GetUnsel(rid) ==
  LET r == run[rid]
      t == r.unsel[r.k]
  IN /\ r.pc = "getUnsel"
     /\ IF TabExists(chrome, t) /\ chrome.groupId[t] # NoGroup
        THEN Resume(rid, [r EXCEPT !.pc = "ungroup",
                                   !.foundGrouped = @ \cup {t}])
        ELSE Resume(rid, NextUnsel([r EXCEPT !.skipped =
                              IF TabExists(chrome, t) THEN @ ELSE @ \cup {t}], objs))
     /\ UNCHANGED <<chrome, appVars>>

\* await chrome.tabs.ungroup(tabId)   (line 199)
UngroupStep(rid) ==
  LET r == run[rid]
      t == r.unsel[r.k]
  IN /\ r.pc = "ungroup"
     /\ chrome' = IF TabExists(chrome, t) THEN Ungroup(chrome, t) ELSE chrome
     /\ Resume(rid, NextUnsel([r EXCEPT !.skipped =
                   IF TabExists(chrome, t) THEN @ ELSE @ \cup {t}], objs))
     /\ UNCHANGED appVars

\* const tab = await chrome.tabs.get(tabId)   (line 216)
GetSel(rid) ==
  LET r == run[rid]
      t == r.sel[r.k]
  IN /\ r.pc = "getSel"
     /\ IF TabExists(chrome, t) /\ chrome.groupId[t] # NoGroup
        THEN Resume(rid, [r EXCEPT !.pc = "getGroup",
                                   !.existingGroupId = chrome.groupId[t]])
        ELSE Resume(rid, NextSel(r))
     /\ UNCHANGED <<chrome, appVars>>

\* variant: the scan finds the group but does not record its collapsed state
GetGroupStep_NoCapture(rid) ==
  LET r == run[rid]
  IN /\ r.pc = "getGroup"
     /\ IF GroupExists(chrome, r.existingGroupId)
        THEN Resume(rid, AfterScan(r))
        ELSE Resume(rid, NextSel(r))
     /\ UNCHANGED <<chrome, appVars>>

\* const groupInfo = await chrome.tabGroups.get(tab.groupId)   (line 219)
GetGroupStep(rid) ==
  LET r == run[rid]
  IN /\ r.pc = "getGroup"
     /\ IF GroupExists(chrome, r.existingGroupId)
        THEN Resume(rid, AfterScan([r EXCEPT
                            !.wasCollapsed = chrome.collapsed[r.existingGroupId]]))
        ELSE Resume(rid, NextSel(r))
     /\ UNCHANGED <<chrome, appVars>>

\* variant: every selected id is added again, member or not
TabsToAdd_All(sel, current) == sel

\* tabsToAdd (line 236)
TabsToAdd(sel, current) == SelectSeq(sel, LAMBDA id : id \notin current)

\* await chrome.tabs.query({ groupId })   (line 234)
QueryGroup(rid) ==
  LET r == run[rid]
      toAdd == TabsToAdd(r.sel, Members(chrome, r.groupId))
  IN /\ r.pc = "queryGroup"
     /\ \/ IF toAdd # <<>>
           THEN Resume(rid, [r EXCEPT !.pc = "addToGroup", !.tabsToAdd = toAdd])
           ELSE Resume(rid, ToUpdate(r, objs))
        \/ /\ ~GroupExists(chrome, r.groupId)
           /\ Fail(rid, "queryGroup")
     /\ UNCHANGED <<chrome, appVars>>

\* await chrome.tabs.group({ groupId, tabIds: tabsToAdd })   (line 238)
AddStep(rid) ==
  LET r == run[rid]
      ids == Range(r.tabsToAdd)
  IN /\ r.pc = "addToGroup"
     /\ IF GroupExists(chrome, r.groupId) /\ ids \subseteq chrome.open
        THEN /\ chrome' = AddToGroup(chrome, r.groupId, ids)
             /\ Resume(rid, ToUpdate(r, objs))
        ELSE /\ Fail(rid, "addToGroup")
             /\ UNCHANGED chrome
     /\ UNCHANGED appVars

\* groupId = await chrome.tabs.group({ tabIds: selectedTabIds })   (line 242)
CreateStep(rid) ==
  LET r == run[rid]
      ids == Range(r.sel)
  IN /\ r.pc = "createGroup"
     /\ IF ids \subseteq chrome.open
        THEN /\ chrome' = CreateGroup(chrome, ids)
             /\ Resume(rid, ToUpdate([r EXCEPT !.groupId = chrome.nextGid], objs))
        ELSE /\ Fail(rid, "createGroup")
             /\ UNCHANGED chrome
     /\ UNCHANGED appVars

\* await chrome.tabGroups.update(groupId, {...})   (line 246)
UpdateStep(rid) ==
  LET r == run[rid]
  IN /\ r.pc = "updateGroup"
     /\ IF GroupExists(chrome, r.groupId)
        THEN /\ chrome' = UpdateGroup(chrome, r.groupId, r.title, r.wasCollapsed)
             /\ Resume(rid, StartGroup(r, objs, r.gi + 1))
        ELSE /\ Fail(rid, "updateGroup")
             /\ UNCHANGED chrome
     /\ UNCHANGED appVars

\* the rebuild loop up to its next await, or to setGroups / setOrganized
ResyncContinue(rid, r) ==
  LET j == NextUnnamed(tabInfo, r.tabs, r.names, 1)
  IN IF j # 0
     THEN Resume(rid, [r EXCEPT !.pc = "resyncGetGroup", !.i = j])
     ELSE /\ groups' = ResyncBuild(tabInfo, r.tabs, r.names)
          /\ organized' = TRUE
          /\ run' = [run EXCEPT ![rid] = Done(r)]
          /\ UNCHANGED alerts

\* const tabs = await chrome.tabs.query({ currentWindow: true })   (line 255)
ListStep(rid) ==
  LET r == run[rid]
  IN /\ r.pc = "listTabs"
     /\ ResyncContinue(rid, [r EXCEPT !.tabs = FilterTabs(tabInfo, ListTabs(chrome))])
     /\ UNCHANGED <<chrome, appVars>>

\* const groupInfo = await chrome.tabGroups.get(tab.groupId)   (line 274)
ResyncGetGroup(rid) ==
  LET r == run[rid]
      e == r.tabs[r.i]
  IN /\ r.pc = "resyncGetGroup"
     /\ ResyncContinue(rid, [r EXCEPT !.names =
            Append(@, [gid |-> e.groupId, name |-> ResyncName(chrome, tabInfo, e),
                       title |-> chrome.title[e.groupId]])])
     /\ UNCHANGED <<chrome, appVars>>

OrganizeStep(rid) ==
  \/ GetUnsel(rid)
  \/ UngroupStep(rid)
  \/ GetSel(rid)
  \/ GetGroupStep(rid)
  \/ QueryGroup(rid)
  \/ AddStep(rid)
  \/ CreateStep(rid)
  \/ UpdateStep(rid)
  \/ ListStep(rid)
  \/ ResyncGetGroup(rid)

\* what the rename field can hold: a name, or nothing once it is cleared
Names == {NameWork, EmptyStr}

Next ==
  \/ LoadQuery
  \/ LoadWindow
  \/ LoadFinish
  \/ \E gi \in 1..MaxTabs : ToggleGroup(gi)
  \/ \E gi \in 1..MaxTabs : \E ti \in 1..MaxTabs : ToggleTab(gi, ti)
  \/ \E gi \in 1..MaxTabs : \E name \in Names : UpdateGroupName(gi, name)
  \/ \E rid \in Runs : OrganizeClick(rid)
  \/ \E rid \in Runs : OrganizeStep(rid)
  \/ \E t \in Tabs : CloseTab(t)

Spec == Init /\ [][Next]_vars

\* --------------------------------------- the view alone, over wider listings
\* Tabs of every kind in every order, none of them grouped; loadTabs and the
\* selection handlers only.
BuildTabInfos(n) ==
  {info \in [Tabs -> {WebTab(HostA), WebTab(HostWwwA), WebTab(HostB), InternalTab,
                      UntitledTab,
                      [url |-> ExtUrl, titled |-> TRUE],
                      [url |-> BadUrl, titled |-> TRUE],
                      [url |-> NoUrl, titled |-> TRUE]}] :
     \A t \in Tabs : t > n => info[t] = WebTab(HostA)}

InitBuild ==
  \E n \in WindowSizes :
     /\ tabInfo \in BuildTabInfos(n)
     /\ chrome = InitChrome(n, [t \in Tabs |-> NoGroup],
                            [g \in InitGroupIds |-> EmptyStr],
                            [g \in InitGroupIds |-> FALSE])
     /\ InitApp

NextBuild ==
  \/ LoadQuery
  \/ LoadWindow
  \/ LoadFinish
  \/ \E gi \in 1..MaxTabs : ToggleGroup(gi)
  \/ \E gi \in 1..MaxTabs : \E ti \in 1..MaxTabs : ToggleTab(gi, ti)
  \/ \E gi \in 1..MaxTabs : \E name \in Names : UpdateGroupName(gi, name)

SpecBuild == InitBuild /\ [][NextBuild]_vars

\* ----------------------------- the same selection reconciled a second time
\* the loop of lines 182-252 is over: the run is in the rebuild or has ended
ReconcileDone(r) == r.pc \in {"listTabs", "resyncGetGroup", "done"}

\* a further click on the button once the first run's loop is over, while its
\* rebuild is still suspended (the button is rendered until setOrganized)
OrganizeAgain ==
  /\ Interactive
  /\ hasSelectedTabs(groups)
  /\ ReconcileDone(run[1])
  /\ run[2].pc = "idle"
  /\ run' = [run EXCEPT ![2] = StartGroup(IdleRun, objs, 1)]
  /\ UNCHANGED <<tabInfo, chrome, chrome0, loadPc, loadTabsSnap, loading, groups,
                 objs, organized, alerts>>

\* windows holding web tabs, internal pages and tabs without a title in any
\* order, some of them in groups
KindTabInfos(n) ==
  {info \in [Tabs -> {WebTab(HostA), WebTab(HostB), InternalTab, UntitledTab}] :
     \A t \in Tabs : t > n => info[t] = WebTab(HostA)}

InitKinds ==
  \E n \in WindowSizes :
     /\ tabInfo \in KindTabInfos(n)
     /\ InitFacility(n)
     /\ InitApp

\* Sessions in which nothing is ticked, renamed or closed once the button has
\* been clicked, and the second click comes after the first run's loop.
NextTwice ==
  \/ LoadQuery
  \/ LoadWindow
  \/ LoadFinish
  \/ \E gi \in 1..MaxTabs : Clicks = 0 /\ ToggleGroup(gi)
  \/ \E gi \in 1..MaxTabs : \E ti \in 1..MaxTabs : Clicks = 0 /\ ToggleTab(gi, ti)
  \/ OrganizeClick(1)
  \/ OrganizeAgain
  \/ \E rid \in 1..2 : OrganizeStep(rid)

SpecTwice == InitKinds /\ [][NextTwice]_vars

\* ------------------------------------- ticks changed while organize runs
\* the click of OrganizeClick, which also notes the ticks it found
OrganizeNoted(rid) ==
  /\ Interactive
  /\ hasSelectedTabs(groups)
  /\ run[rid].pc = "idle"
  /\ \A q \in 1..(rid - 1) : run[q].pc # "idle"
  /\ rid > 1 => Busy
  /\ run' = [run EXCEPT ![rid] =
               StartGroup([IdleRun EXCEPT !.invoked = TicksOf(objs)], objs, 1)]
  /\ UNCHANGED <<tabInfo, chrome, chrome0, loadPc, loadTabsSnap, loading, groups,
                 objs, organized, alerts>>

\* Sessions in which the checkboxes are used before and during the runs, and
\* no tab is closed and no suggestion renamed.
NextToggle ==
  \/ LoadQuery
  \/ LoadWindow
  \/ LoadFinish
  \/ \E gi \in 1..MaxTabs : ToggleGroup(gi)
  \/ \E gi \in 1..MaxTabs : \E ti \in 1..MaxTabs : ToggleTab(gi, ti)
  \/ \E rid \in Runs : OrganizeNoted(rid)
  \/ \E rid \in Runs : OrganizeStep(rid)

SpecToggle == Init /\ [][NextToggle]_vars

\* ------------------------------------------------------------------ claims
TabIds(g) == {g.tabs[j].id : j \in DOMAIN g.tabs}
Flags(g) == [j \in DOMAIN g.tabs |-> g.tabs[j].selected]
AllSelected(gs) == \A gi \in DOMAIN gs : gs[gi].groupSelected /\ Every(gs[gi].tabs)
Partial(g) == (\E j \in DOMAIN g.tabs : g.tabs[j].selected)
              /\ (\E j \in DOMAIN g.tabs : ~g.tabs[j].selected)

GroupSelectedIsAnd(gs) ==
  \A gi \in DOMAIN gs : gs[gi].groupSelected = Every(gs[gi].tabs)

\* C1: in every reachable state, whatever toggleGroup and toggleTab calls led
\* to it, every suggestion's groupSelected equals the AND of the selected
\* flags of its tabs.
C1_GroupSelectedIsAnd == GroupSelectedIsAnd(groups) /\ GroupSelectedIsAnd(objs)

\* a partly selected suggestion next to a fully unselected one
C1_Witness ==
  /\ \E gi \in DOMAIN groups : Partial(groups[gi]) /\ ~groups[gi].groupSelected
  /\ \E gi \in DOMAIN groups :
        ~groups[gi].groupSelected /\ \A j \in DOMAIN groups[gi].tabs : ~groups[gi].tabs[j].selected

\* C2 as stated: from every reachable selection state, partly selected
\* suggestions included, toggleGroup(i) applied twice gives every tab of
\* suggestion i the selected flag it had before.
C2_Involution ==
  \A gi \in DOMAIN groups :
     Flags(toggleGroup(toggleGroup(groups, gi), gi)[gi]) = Flags(groups[gi])

\* C2 amended: toggleGroup(i) applied twice restores the flags of a suggestion
\* whose tabs are all selected or all unselected, and leaves every tab of a
\* partly selected suggestion unselected.
C2_InvolutionWhenUniform ==
  \A gi \in DOMAIN groups :
     LET twice == toggleGroup(toggleGroup(groups, gi), gi)[gi]
     IN IF Partial(groups[gi])
        THEN \A j \in DOMAIN twice.tabs : ~twice.tabs[j].selected
        ELSE Flags(twice) = Flags(groups[gi]) /\ twice.groupSelected = groups[gi].groupSelected

\* a suggestion of two tabs that a toggle has left fully unselected
C2_Witness ==
  \E gi \in DOMAIN groups :
     /\ Len(groups[gi].tabs) >= 2
     /\ ~groups[gi].groupSelected
     /\ \A j \in DOMAIN groups[gi].tabs : ~groups[gi].tabs[j].selected

\* position of a tab in the listing loadTabs queried
ListedAt(t) == IndexOf(loadTabsSnap, LAMBDA e : e.id = t)
Listed == {loadTabsSnap[i].id : i \in DOMAIN loadTabsSnap}
Shown(t) == t \in Listed /\ KeepTab(tabInfo, t) /\ Usable(tabInfo, t)
KeyOf(t) == getHostname(tabInfo[t].url)

FreshBuildOK(gs) ==
  /\ \A t \in Tabs : Shown(t) <=> \E gi \in DOMAIN gs : t \in TabIds(gs[gi])
  /\ \A gi \in DOMAIN gs :
        /\ gs[gi].tabs # <<>>
        /\ gs[gi].groupSelected
        /\ gs[gi].customName = {}
        /\ \A j \in DOMAIN gs[gi].tabs :
              /\ gs[gi].tabs[j].selected
              /\ KeyOf(gs[gi].tabs[j].id) = gs[gi].host
        \* tabs in listing order
        /\ \A j, k \in DOMAIN gs[gi].tabs :
              j < k => ListedAt(gs[gi].tabs[j].id) < ListedAt(gs[gi].tabs[k].id)
  \* one suggestion per key, in order of first occurrence
  /\ \A gi, gj \in DOMAIN gs :
        gi < gj => /\ gs[gi].host # gs[gj].host
                   /\ ListedAt(gs[gi].tabs[1].id) < ListedAt(gs[gj].tabs[1].id)

\* C10: the view loadTabs stores holds every listed, shown tab in exactly one
\* suggestion per grouping key, suggestions in order of first occurrence of
\* their key, tabs in listing order, everything selected.
C10_FreshBuild == [][loadPc # "done" /\ loadPc' = "done" => FreshBuildOK(groups')]_vars

\* a.com, b.com, a.com gives [a.com: 1, 3], [b.com: 2], the www. prefix dropped
C10_Witness ==
  /\ loadPc = "done"
  /\ tabInfo[1] = WebTab(HostA) /\ tabInfo[2] = WebTab(HostB) /\ tabInfo[3] = WebTab(HostWwwA)
  /\ groups = << [host |-> HostA, tabs |-> <<NewTab(1), NewTab(3)>>,
                  groupSelected |-> TRUE, customName |-> {}],
                 [host |-> HostB, tabs |-> <<NewTab(2)>>,
                  groupSelected |-> TRUE, customName |-> {}] >>

\* C3 as stated: no call of organize that fails because its tab or group no
\* longer exists ends the run in the fatal-error outcome. (A call fails in
\* this model only for that reason.)
C3_NotFoundNonFatal ==
  \A rid \in Runs : run[rid].pc = "failed" => run[rid].failedAt = ""

\* C4 as stated: at most one call to the facility is outstanding at any
\* moment, whatever the UI events.
OutstandingCalls ==
  (IF loadPc # "done" THEN 1 ELSE 0) + Cardinality({rid \in Runs : Active(run[rid])})

C4_OneOutstandingCall == OutstandingCalls <= 1

\* C5: no step of an organize run other than its successful end changes the
\* view or the organized flag, and the step that ends a run in the
\* fatal-error outcome raises one failure notice and undoes nothing in the
\* facility.
C5_FatalLeavesModel ==
  [][\A rid \in Runs :
       /\ (run'[rid] # run[rid] /\ run'[rid].pc # "done")
             => (groups' = groups /\ objs' = objs /\ organized' = organized)
       /\ (run[rid].pc # "failed" /\ run'[rid].pc = "failed")
             => (alerts' = alerts + 1 /\ chrome' = chrome)]_vars

\* a run that failed after it had changed the facility
C5_Witness ==
  \E rid \in Runs :
     /\ run[rid].pc = "failed"
     /\ alerts = 1
     /\ ~organized
     /\ groups = objs
     /\ \E t \in chrome.open : chrome.groupId[t] # chrome0.groupId[t]

\* C6: a group that existed when the popup opened keeps its collapsed
\* attribute for as long as it exists, whatever organize adds to it.
C6_CollapsedPreserved ==
  \A g \in InitGroupIds :
     GroupExists(chrome, g) => chrome.collapsed[g] = chrome0.collapsed[g]

\* a collapsed group that organize retitled and that gained a tab
C6_Witness ==
  \E g \in InitGroupIds :
     /\ chrome0.collapsed[g] /\ chrome.collapsed[g]
     /\ chrome.title[g] # chrome0.title[g]
     /\ \E t \in chrome.open : chrome.groupId[t] = g /\ chrome0.groupId[t] # g
     /\ organized

\* the suggestion of ungrouped tabs keyed by the tab's hostname
InHostSuggestion(gs, t) ==
  \E gi \in DOMAIN gs :
     /\ t \in TabIds(gs[gi])
     /\ gs[gi].customName = {}
     /\ gs[gi].host = KeyOf(t)
     /\ \A gj \in DOMAIN gs : gj # gi => t \notin TabIds(gs[gj])

\* C7 as stated: when a run ends in success, every tab it read as unselected
\* and found in a group (and that is still open) is in no group and is shown
\* in the suggestion of ungrouped tabs of its hostname.
C7_DeselectedEndsUngrouped ==
  [][\A rid \in Runs :
       (run[rid].pc # "done" /\ run'[rid].pc = "done")
          => \A t \in run[rid].foundGrouped \cap chrome'.open :
                chrome'.groupId[t] = NoGroup /\ InHostSuggestion(groups', t)]_vars

\* C8: once organize has succeeded, every tab and every suggestion of the
\* view is selected.
C8_ResyncAllSelected == organized => AllSelected(groups)

\* success after a partial selection
C8_Witness ==
  /\ organized
  /\ \E gi \in DOMAIN objs : Partial(objs[gi])
  /\ \E gi \in DOMAIN objs : \A j \in DOMAIN objs[gi].tabs : ~objs[gi].tabs[j].selected
  /\ groups # <<>>

\* C9 as stated: when a run issues addToGroup it names selected tabs only, at
\* least one, none of them a member of the target group; it goes from the
\* membership query straight to the update only when every selected tab is a
\* member; and when it issues createGroup no selected tab is in a group.
C9_AddOnlyNewMembers ==
  [][\A rid \in Runs :
       LET r == run[rid]
           n == run'[rid]
       IN /\ (r.pc # "addToGroup" /\ n.pc = "addToGroup") =>
                /\ n.tabsToAdd # <<>>
                /\ Range(n.tabsToAdd) \subseteq Range(n.sel)
                /\ Range(n.tabsToAdd) \cap Members(chrome', n.groupId) = {}
          /\ (r.pc = "queryGroup" /\ n.pc = "updateGroup") =>
                Range(r.sel) \subseteq Members(chrome', r.groupId)
          /\ (r.pc # "createGroup" /\ n.pc = "createGroup") =>
                /\ n.sel # <<>>
                /\ \A t \in Range(n.sel) \cap chrome'.open : chrome'.groupId[t] = NoGroup]_vars

\* C11: hasSelectedTabs is false exactly when every tab of every suggestion is
\* unselected (the empty view included), and while the button is rendered a
\* click starts the handler exactly when hasSelectedTabs is true.
C11_HasAnySelected ==
  /\ hasSelectedTabs(groups) =
        ~(\A gi \in DOMAIN groups : \A j \in DOMAIN groups[gi].tabs :
             ~groups[gi].tabs[j].selected)
  /\ (Interactive /\ run[1].pc = "idle") =>
        ((ENABLED OrganizeClick(1)) <=> hasSelectedTabs(groups))

\* two suggestions, every tab unticked, the button disabled
C11_Witness ==
  /\ Interactive
  /\ Len(groups) >= 2
  /\ \A gi \in DOMAIN groups : \A j \in DOMAIN groups[gi].tabs : ~groups[gi].tabs[j].selected
  /\ ~hasSelectedTabs(groups)
  /\ ~ENABLED OrganizeClick(1)

\* the selected tabs of the suggestion a run is processing were in several
\* of the groups that existed when the popup opened
SpansGroups(r) ==
  \E t, u \in Range(r.sel) :
     /\ chrome0.groupId[t] \in InitGroupIds
     /\ chrome0.groupId[u] \in InitGroupIds
     /\ chrome0.groupId[t] # chrome0.groupId[u]

\* C12 as stated: for a suggestion whose selected tabs were in several
\* pre-existing groups, the scan settles on the group of the first selected
\* tab, in suggestion order, that is in a group, and when the update of the
\* suggestion has completed every selected tab of the suggestion (still open)
\* is a member of that group.
C12_FirstGroupedIsTarget ==
  [][\A rid \in Runs :
       LET r == run[rid]
           n == run'[rid]
       IN SpansGroups(r) =>
          /\ (r.pc = "getSel" /\ n.pc = "getGroup") =>
                /\ n.existingGroupId = chrome.groupId[r.sel[r.k]]
                /\ \A j \in 1..(r.k - 1) :
                      r.sel[j] \in chrome.open => chrome.groupId[r.sel[j]] = NoGroup
          /\ (r.pc = "getGroup" /\ n # r /\ GroupExists(chrome, r.existingGroupId)) =>
                (n.pc = "queryGroup" /\ n.groupId = r.existingGroupId)
          /\ (r.pc = "updateGroup" /\ n.pc \notin {"updateGroup", "failed"}) =>
                \A t \in Range(r.sel) \cap chrome'.open : chrome'.groupId[t] = r.groupId]_vars

\* organize has moved a tab out of its group into the group of an earlier tab
C12_Witness ==
  /\ organized
  /\ \E t, u \in chrome.open :
        /\ u < t
        /\ chrome0.groupId[u] \in InitGroupIds
        /\ chrome0.groupId[t] \in InitGroupIds
        /\ chrome0.groupId[t] # chrome0.groupId[u]
        /\ chrome.groupId[t] = chrome0.groupId[u]
        /\ chrome.groupId[u] = chrome0.groupId[u]

\* C13: the completion of a lookup or an ungroup of an unselected tab never
\* ends the run in the fatal-error outcome; when the call failed because the
\* tab is gone, the run goes on to the next unselected tab of the suggestion,
\* or after the last one to the suggestion's selected tabs with the ids it
\* read, or when there are none to a later suggestion or the rebuild.
C13_UnselectedFailureSkipped ==
  [][\A rid \in Runs :
       LET r == run[rid]
           n == run'[rid]
       IN (r.pc \in {"getUnsel", "ungroup"} /\ n # r) =>
             /\ n.pc # "failed"
             /\ alerts' = alerts
             /\ r.unsel[r.k] \notin chrome.open =>
                   /\ chrome' = chrome
                   /\ IF r.k < Len(r.unsel)
                      THEN n.pc = "getUnsel" /\ n.gi = r.gi /\ n.k = r.k + 1
                           /\ n.unsel = r.unsel /\ n.sel = r.sel
                      ELSE IF r.sel # <<>>
                      THEN n.pc = "getSel" /\ n.gi = r.gi /\ n.k = 1 /\ n.sel = r.sel
                      ELSE n.gi > r.gi]_vars

\* a run is retitling the group of a suggestion's selected tabs after the
\* lookup of one of its unselected tabs failed
C13_Witness ==
  \E rid \in Runs :
     /\ run[rid].pc = "updateGroup"
     /\ run[rid].skipped \cap Range(run[rid].unsel) # {}

\* C14: once the first run's loop is over, a second run over the same
\* selection with the facility left alone issues no createGroup, no addToGroup
\* and no ungroup, and no step changes the membership of any tab.
C14_SecondRunIdempotent ==
  [][ReconcileDone(run[1]) =>
        /\ run'[2].pc \notin {"createGroup", "addToGroup", "ungroup"}
        /\ chrome'.groupId = chrome.groupId
        /\ chrome'.open = chrome.open]_vars

\* the second run has gone through every suggestion after the first run
\* ungrouped one tab and moved another into a group
C14_Witness ==
  /\ ReconcileDone(run[1])
  /\ ReconcileDone(run[2])
  /\ \E t \in chrome.open : chrome0.groupId[t] # NoGroup /\ chrome.groupId[t] = NoGroup
  /\ \E t \in chrome.open : chrome.groupId[t] \notin {NoGroup, chrome0.groupId[t]}

\* C15 as stated: when the update of a suggestion completes, the group's
\* title is the suggestion's customName if it has one, and its key otherwise.
C15_TitleIsCustomName ==
  [][\A rid \in Runs :
       LET r == run[rid]
           n == run'[rid]
       IN (r.pc = "updateGroup" /\ n.pc \notin {"updateGroup", "failed"}) =>
             chrome'.title[r.groupId] =
                IF objs[r.gi].customName # {}
                THEN CHOOSE name \in objs[r.gi].customName : TRUE
                ELSE objs[r.gi].host]_vars

\* C15 amended: the update is issued with the suggestion's customName as it
\* is at that moment if it has been set to a non-empty string, and with the
\* suggestion's key if it was never set or was set to the empty string; when
\* the update completes the group's title is the one it was issued with.
C15_TitleAsIssued ==
  [][\A rid \in Runs :
       LET r == run[rid]
           n == run'[rid]
       IN /\ (r.pc # "updateGroup" /\ n.pc = "updateGroup") =>
                LET g == objs[n.gi]
                IN /\ g.customName \in {{}, {EmptyStr}} => n.title = g.host
                   /\ g.customName \notin {{}, {EmptyStr}} => {n.title} = g.customName
          /\ (r.pc = "updateGroup" /\ n.pc \notin {"updateGroup", "failed"}) =>
                chrome'.title[r.groupId] = r.title]_vars

\* organize has created a group and given it the name typed for its suggestion
C15_Witness ==
  \E g \in GroupIds \ InitGroupIds :
     /\ GroupExists(chrome, g)
     /\ chrome.title[g] = NameWork
     /\ \E gi \in DOMAIN objs : objs[gi].customName = {NameWork}

\* C16: a run that read no selected tab in a suggestion issues no call but
\* lookups and ungroups for it: it never scans, queries, creates, adds or
\* updates, each ungroup names a tab of that suggestion, and its completion
\* changes nothing in the facility but that tab's membership (and the
\* attributes of a group it empties).
C16_AllUnselectedOnlyUngroups ==
  [][\A rid \in Runs :
       LET r == run[rid]
           n == run'[rid]
       IN /\ n.pc \in {"getSel", "getGroup", "queryGroup", "addToGroup",
                        "createGroup", "updateGroup"} => n.sel # <<>>
          /\ (n.pc \in {"getUnsel", "ungroup"} /\ n.sel = <<>>) =>
                n.unsel[n.k] \in TabIds(objs[n.gi])
          /\ (r.pc \in {"getUnsel", "ungroup"} /\ r.sel = <<>> /\ n # r) =>
                /\ \A t \in Tabs \ {r.unsel[r.k]} : chrome'.groupId[t] = chrome.groupId[t]
                /\ chrome'.groupId[r.unsel[r.k]] \in {NoGroup, chrome.groupId[r.unsel[r.k]]}
                /\ chrome'.open = chrome.open
                /\ chrome'.nextGid = chrome.nextGid
                /\ \A g \in GroupIds : GroupExists(chrome', g) =>
                      /\ chrome'.title[g] = chrome.title[g]
                      /\ chrome'.collapsed[g] = chrome.collapsed[g]]_vars

\* in a suggestion with no selected tab, the run has ungrouped the first tab
\* and is looking up the second
C16_Witness ==
  \E rid \in Runs :
     LET r == run[rid]
     IN /\ r.pc = "getUnsel"
        /\ r.sel = <<>>
        /\ r.k = 2
        /\ r.unsel[1] \in r.foundGrouped
        /\ r.unsel[1] \in chrome.open
        /\ chrome.groupId[r.unsel[1]] = NoGroup

\* the listing a run's rebuild works on, at the step that ends the run
ResyncListing(r) ==
  LET all == IF r.pc = "listTabs" THEN FilterTabs(tabInfo, ListTabs(chrome)) ELSE r.tabs
  IN SelectSeq(all, LAMBDA e : Usable(tabInfo, e.id))

\* the title the rebuild read for group g (read in this step when not yet recorded)
TitleRead(r, g) ==
  IF \E i \in DOMAIN r.names : r.names[i].gid = g
  THEN r.names[IndexOf(r.names, LAMBDA e : e.gid = g)].title
  ELSE chrome.title[g]

SuggestionOf(gs, t) == CHOOSE gi \in DOMAIN gs : t \in TabIds(gs[gi])

\* what C17 says of the rebuilt view gs, but for the customName of the
\* suggestions derived from groups
ResyncShape(gs, tabs, r) ==
  /\ \A i \in DOMAIN tabs : \E gi \in DOMAIN gs : tabs[i].id \in TabIds(gs[gi])
  /\ \A i, j \in DOMAIN tabs :
        LET a == tabs[i]
            b == tabs[j]
            same == SuggestionOf(gs, a.id) = SuggestionOf(gs, b.id)
        IN /\ (a.groupId # NoGroup /\ a.groupId = b.groupId) => same
           /\ (a.groupId # b.groupId) => ~same
           /\ (a.groupId = NoGroup /\ b.groupId = NoGroup) => (same <=> KeyOf(a.id) = KeyOf(b.id))
  /\ \A i \in DOMAIN tabs :
        LET a == tabs[i]
            g == gs[SuggestionOf(gs, a.id)]
            first == tabs[IndexOf(tabs, LAMBDA e : e.groupId = a.groupId)]
        IN IF a.groupId = NoGroup
           THEN g.host = KeyOf(a.id) /\ g.customName = {}
           ELSE g.host = IF TitleRead(r, a.groupId) # EmptyStr
                         THEN TitleRead(r, a.groupId)
                         ELSE KeyOf(first.id)
  /\ \A i, j \in DOMAIN tabs :
        (tabs[i].groupId # NoGroup /\ tabs[j].groupId = NoGroup)
           => SuggestionOf(gs, tabs[i].id) < SuggestionOf(gs, tabs[j].id)

\* C17 as stated: the view a run's rebuild stores has one suggestion per
\* group of the listing, keyed by the group's title (by the hostname of its
\* first tab when the title is empty) and with the group's title as
\* customName, then one suggestion per hostname of the ungrouped tabs.
C17_ResyncStructure ==
  [][\A rid \in Runs :
       (run[rid].pc # "done" /\ run'[rid].pc = "done") =>
          LET tabs == ResyncListing(run[rid])
          IN /\ ResyncShape(groups', tabs, run[rid])
             /\ \A i \in DOMAIN tabs :
                   tabs[i].groupId # NoGroup =>
                      groups'[SuggestionOf(groups', tabs[i].id)].customName
                         = {TitleRead(run[rid], tabs[i].groupId)}]_vars

\* C17 amended: the same, except that the customName of a suggestion derived
\* from a group is its key: the group's title when the rebuild read a
\* non-empty one, the hostname of the group's first listed tab otherwise.
C17_ResyncCustomNameIsKey ==
  [][\A rid \in Runs :
       (run[rid].pc # "done" /\ run'[rid].pc = "done") =>
          LET tabs == ResyncListing(run[rid])
          IN /\ ResyncShape(groups', tabs, run[rid])
             /\ \A i \in DOMAIN tabs :
                   tabs[i].groupId # NoGroup =>
                      LET g == groups'[SuggestionOf(groups', tabs[i].id)]
                      IN g.customName = {g.host}]_vars

\* the rebuilt view: a suggestion for a group holding tabs of two hostnames,
\* then a suggestion for an ungrouped tab
C17_Witness ==
  /\ organized
  /\ Len(groups) >= 2
  /\ groups[1].customName # {}
  /\ \E j, k \in DOMAIN groups[1].tabs :
        KeyOf(groups[1].tabs[j].id) # KeyOf(groups[1].tabs[k].id)
  /\ groups[Len(groups)].customName = {}

\* the ids of a suggestion's tabs, in order
IdsOf(g) == [j \in DOMAIN g.tabs |-> g.tabs[j].id]

\* C18: a step of toggleGroup, toggleTab or updateGroupName leaves the
\* facility, the organized flag and the running handlers alone, keeps the
\* number and order of the suggestions and the tabs of each, and changes one
\* suggestion only: either its customName and nothing else, or the flag of
\* exactly one tab (and groupSelected), or groupSelected and with it the
\* flag of every tab.
C18_SelectionFrame ==
  [][(groups' # groups /\ run' = run /\ loadPc' = loadPc) =>
        /\ chrome' = chrome
        /\ organized' = organized
        /\ alerts' = alerts
        /\ Len(groups') = Len(groups)
        /\ \E gi \in DOMAIN groups :
              LET g == groups[gi]
                  h == groups'[gi]
              IN /\ \A gj \in DOMAIN groups \ {gi} : groups'[gj] = groups[gj]
                 /\ h.host = g.host
                 /\ IdsOf(h) = IdsOf(g)
                 /\ \/ /\ Flags(h) = Flags(g)
                       /\ h.groupSelected = g.groupSelected
                    \/ /\ h.customName = g.customName
                       /\ \E ti \in DOMAIN g.tabs :
                             /\ Flags(h)[ti] = ~Flags(g)[ti]
                             /\ \A j \in DOMAIN g.tabs \ {ti} : Flags(h)[j] = Flags(g)[j]
                    \/ /\ h.customName = g.customName
                       /\ h.groupSelected = ~g.groupSelected
                       /\ \A j \in DOMAIN h.tabs : Flags(h)[j] = h.groupSelected]_vars

\* a renamed, partly ticked suggestion while a handler is suspended
C18_Witness ==
  /\ \E gi \in DOMAIN groups : groups[gi].customName = {NameWork} /\ Partial(groups[gi])
  /\ \E rid \in Runs : Active(run[rid])
  /\ ~organized

\* a tab that has an address and a title and is no internal or extension page
Presentable(t) ==
  /\ tabInfo[t].url # NoUrl
  /\ tabInfo[t].titled
  /\ tabInfo[t].url.scheme \notin {"chrome", "chrome-extension"}

\* the suggestions gs hold exactly the tabs of the set S, each once, and none
\* is empty
Partitions(gs, S) ==
  /\ \A gi \in DOMAIN gs : gs[gi].tabs # <<>>
  /\ \A gi \in DOMAIN gs : \A j, k \in DOMAIN gs[gi].tabs :
        j # k => gs[gi].tabs[j].id # gs[gi].tabs[k].id
  /\ \A gi, gj \in DOMAIN gs : gi # gj => TabIds(gs[gi]) \cap TabIds(gs[gj]) = {}
  /\ UNION {TabIds(gs[gi]) : gi \in DOMAIN gs} = S

PresentableIn(listing) ==
  {listing[i].id : i \in {j \in DOMAIN listing : Presentable(listing[j].id)}}

\* C19: from the moment loadTabs has stored the view, through every toggle
\* and rename, the suggestions partition the presentable tabs of the listing
\* loadTabs read; and the view a run's rebuild stores partitions the
\* presentable tabs of the listing the rebuild read.
C19_SuggestionsPartition ==
  [][/\ (loadPc' = "done" /\ ~organized') =>
           Partitions(groups', PresentableIn(loadTabsSnap'))
     /\ \A rid \in Runs :
           (run[rid].pc # "done" /\ run'[rid].pc = "done") =>
              Partitions(groups',
                         PresentableIn(IF run[rid].pc = "listTabs"
                                       THEN ListTabs(chrome)
                                       ELSE run[rid].tabs))]_vars

\* the rebuilt view of a window that also holds an internal page and a tab
\* without a title
C19_Witness ==
  /\ organized
  /\ groups # <<>>
  /\ \E t \in chrome.open : tabInfo[t] = InternalTab
  /\ \E t \in chrome.open : tabInfo[t] = UntitledTab

\* the tabs whose membership a step changes
Regrouped == {t \in Tabs : chrome'.groupId[t] # chrome.groupId[t]}

\* the groups whose title or collapsed attribute a step sets (a group that
\* dissolves in the step aside)
Retitled ==
  {g \in GroupIds : /\ GroupExists(chrome', g)
                    /\ \/ chrome'.title[g] # chrome.title[g]
                       \/ chrome'.collapsed[g] # chrome.collapsed[g]}

\* What C20 says of a step from r to n of one run, the updateGroup clause
\* aside: when the run turns to a suggestion it reads the ids of its ticked
\* and unticked tabs and keeps them for the turn; the completion of an
\* ungroup changes the membership of the named unticked tab only, the
\* completion of an addToGroup or createGroup that of ticked tabs only, and
\* no other step changes any membership; a tab that is not in the view never
\* changes membership; only a completed updateGroup sets attributes, and
\* only those of its target.
FollowsSelection(r, n) ==
  /\ (n.gi # r.gi /\ n.gi \in DOMAIN objs) =>
        /\ n.sel = SelectSeq(IdsOf(objs[n.gi]),
                             LAMBDA t : \E j \in DOMAIN objs[n.gi].tabs :
                                objs[n.gi].tabs[j] = [id |-> t, selected |-> TRUE])
        /\ n.unsel = SelectSeq(IdsOf(objs[n.gi]),
                               LAMBDA t : \E j \in DOMAIN objs[n.gi].tabs :
                                  objs[n.gi].tabs[j] = [id |-> t, selected |-> FALSE])
  /\ (n.gi = r.gi /\ Active(n) /\ ~ReconcileDone(n)) =>
        (n.sel = r.sel /\ n.unsel = r.unsel)
  /\ Regrouped \subseteq
        (CASE r.pc = "ungroup" -> {r.unsel[r.k]}
           [] r.pc \in {"addToGroup", "createGroup"} -> Range(r.sel)
           [] OTHER -> {})
  /\ \A t \in Regrouped : Presentable(t)
  /\ Retitled \subseteq (IF r.pc = "updateGroup" THEN {r.groupId} ELSE {})

C21_PartitionReadAtTurn ==
  [][/\ (TicksOf(objs') # TicksOf(objs)) => (run' = run /\ chrome' = chrome)
     /\ \A rid \in Runs :
          LET r == run[rid]
              n == run'[rid]
          IN (n # r) =>
             /\ (n.gi # r.gi /\ n.gi \in DOMAIN objs) =>
                   /\ n.sel = IdsTicked(objs[n.gi], Flags(objs[n.gi]), TRUE)
                   /\ n.unsel = IdsTicked(objs[n.gi], Flags(objs[n.gi]), FALSE)
             /\ (n.gi = r.gi /\ Active(n) /\ ~ReconcileDone(n)) =>
                   (n.sel = r.sel /\ n.unsel = r.unsel)
             /\ (Active(r) /\ Active(n)) => n.gi >= r.gi
             /\ Regrouped \subseteq
                   (IF r.gi \in DOMAIN objs THEN TabIds(objs[r.gi]) ELSE {})
             /\ (n.pc = "done") => (organized' /\ AllSelected(groups'))]_vars

\* a run has succeeded; a tab of a later suggestion was ticked at the click,
\* was unticked while the run was with an earlier suggestion, and has been
\* taken out of its group; the view the run left has every tab ticked
C21_Witness ==
  /\ organized
  /\ AllSelected(groups)
  /\ run[1].pc = "done"
  /\ run[2].pc = "idle"
  /\ \E gi \in DOMAIN objs : \E j \in DOMAIN objs[gi].tabs :
        LET t == objs[gi].tabs[j].id
        IN /\ gi > 1
           /\ run[1].invoked[gi][j]
           /\ ~objs[gi].tabs[j].selected
           /\ chrome0.groupId[t] # NoGroup
           /\ chrome.groupId[t] = NoGroup

=============================================================================
